---- MODULE Spec2Model ----
(***************************************************************************)
(* Request router of AgnoAgent: InterfaceAgent (intent classification,     *)
(* single-target dispatch, search-and-analyze pipeline) on top of          *)
(* AgentManager (handler registry, service calls) and the four handlers.   *)
(* Texts are TLA+ strings; Python's str operations are defined below.      *)
(***************************************************************************)
EXTENDS Integers, Sequences, FiniteSets, TLC

VARIABLES
    initialized,       \* InterfaceAgent._initialized
    agent_manager,     \* InterfaceAgent.agent_manager is set (not None)
    mgr_initialized,   \* AgentManager._initialized
    agents,            \* keys of AgentManager.agents
    register_runs,     \* number of times _register_agents has run on that manager
    reg_failed,        \* handlers whose registration failed in its last run
    pc,                \* position of the request in flight
    req,               \* the request as passed to the entry point
    ctx,               \* locals of _route_request and its callee
    calls,             \* external invocations made for the request in flight
    result,            \* value returned by the entry point
    cls_in,            \* input of a stand-alone classification
    cls_out,           \* its result
    ext_in,            \* input of a stand-alone term extraction
    ext_out,           \* its result, <<>> before it has run
    mcp,               \* MCPServerManager: _initialized and the keys of services
    down,              \* what the last shutdown of a manager did
    other              \* pc, req, ctx, calls and result of a second, suspended invocation

vars == <<initialized, agent_manager, mgr_initialized, agents, register_runs, reg_failed,
          pc, req, ctx, calls, result, cls_in, cls_out, ext_in, ext_out, mcp, down,
          other>>

registryVars == <<initialized, agent_manager, mgr_initialized, agents, register_runs,
                  reg_failed>>

pureVars == <<cls_in, cls_out, ext_in, ext_out>>

\* what no request to the router or to the AgentManager touches
sideVars == <<mcp, down, other>>

routeVars == <<initialized, agent_manager, mgr_initialized, agents, register_runs, reg_failed,
               pc, req, ctx, calls, result>>

----------------------------------------------------------------------------
(* Bounds *)

MaxWords == 2          \* words per generated classifier query
MaxResults == 2        \* search results a search call may return
MaxRegFailures == 1    \* handlers whose registration may fail

----------------------------------------------------------------------------
(* Python values and str operations *)

None == "None"

Truthy(x) == x # None /\ x # ""

UpperChars == "ABCDEFGHIJKLMNOPQRSTUVWXYZÄÖÜ"
LowerChars == "abcdefghijklmnopqrstuvwxyzäöü"

CharAt(s, i) == SubSeq(s, i, i)

LowerChar(c) ==
    IF \E i \in 1..Len(UpperChars) : CharAt(UpperChars, i) = c
    THEN CharAt(LowerChars, CHOOSE i \in 1..Len(UpperChars) : CharAt(UpperChars, i) = c)
    ELSE c

RECURSIVE Lower(_)
Lower(s) == IF s = "" THEN "" ELSE LowerChar(CharAt(s, 1)) \o Lower(Tail(s))

\* `w in s` for strings
Contains(s, w) ==
    \E i \in 1..(Len(s) - Len(w) + 1) : SubSeq(s, i, i + Len(w) - 1) = w

\* any(word in s for word in words)
AnyIn(words, s) == \E k \in 1..Len(words) : Contains(s, words[k])

IsSpace(c) == c = " " \/ c = "\t" \/ c = "\n"

RECURSIVE LStrip(_)
LStrip(s) == IF s # "" /\ IsSpace(CharAt(s, 1)) THEN LStrip(Tail(s)) ELSE s

RECURSIVE RStrip(_)
RStrip(s) ==
    IF s # "" /\ IsSpace(CharAt(s, Len(s)))
    THEN RStrip(SubSeq(s, 1, Len(s) - 1))
    ELSE s

Strip(s) == RStrip(LStrip(s))

StartsWith(s, p) == Len(s) >= Len(p) /\ SubSeq(s, 1, Len(p)) = p

\* s.replace(p, "") for a non-empty p
RECURSIVE Remove(_, _)
Remove(s, p) ==
    IF Len(s) < Len(p) THEN s
    ELSE IF StartsWith(s, p) THEN Remove(SubSeq(s, Len(p) + 1, Len(s)), p)
    ELSE CharAt(s, 1) \o Remove(Tail(s), p)

\* s.split(p)[0]
RECURSIVE SplitHead(_, _)
SplitHead(s, p) ==
    IF Len(s) < Len(p) THEN s
    ELSE IF StartsWith(s, p) THEN ""
    ELSE CharAt(s, 1) \o SplitHead(Tail(s), p)

----------------------------------------------------------------------------
(* InterfaceAgent._determine_target *)

SearchTriggerWords == <<"suche", "finde", "google", "web", "internet", "nachrichten">>
AnalysisTriggerWords == <<"zusammenfass", "essay", "analysier", "bewert", "erkläre", "bericht">>
LektorWords == <<"korrigier", "grammatik", "rechtschreib", "fehler", "überprüf">>
SentimentWords == <<"sentiment", "stimmung", "emotion", "gefühl", "positiv", "negativ">>
OptimizerWords == <<"optimier", "tonalität", "stil", "umformulier", "verbessern">>
QueryRefWords == <<"suchanfrage", "query", "suche verbessern", "suchbegriff">>
SearchWords == <<"suche", "finde", "google", "web", "internet">>
WebWords == <<"website", "url", "webseite", "extrahier", "inhalt">>
TimeWords == <<"zeit", "datum", "uhrzeit", "wann">>

has_search(query_lower) == AnyIn(SearchTriggerWords, query_lower)
has_analysis(query_lower) == AnyIn(AnalysisTriggerWords, query_lower)

\* variant: the handler groups are tested before the multi-step condition
DetermineTarget_HandlersFirst(query) ==
    LET query_lower == Lower(query) IN
    IF AnyIn(LektorWords, query_lower) THEN <<"lektor", None>>
    ELSE IF AnyIn(SentimentWords, query_lower) THEN <<"sentiment", None>>
    ELSE IF AnyIn(OptimizerWords, query_lower) THEN <<"optimizer", None>>
    ELSE IF AnyIn(QueryRefWords, query_lower) THEN <<"query_ref", None>>
    ELSE IF has_search(query_lower) /\ has_analysis(query_lower)
        THEN <<"multi_step", "search_and_analyze">>
    ELSE IF AnyIn(SearchWords, query_lower) THEN <<None, "search">>
    ELSE IF AnyIn(WebWords, query_lower) THEN <<None, "web">>
    ELSE IF AnyIn(TimeWords, query_lower) THEN <<None, "time">>
    ELSE <<"optimizer", None>>

\* variant: the service groups are tested before the handler groups
DetermineTarget_ServicesFirst(query) ==
    LET query_lower == Lower(query) IN
    IF has_search(query_lower) /\ has_analysis(query_lower)
        THEN <<"multi_step", "search_and_analyze">>
    ELSE IF AnyIn(SearchWords, query_lower) THEN <<None, "search">>
    ELSE IF AnyIn(WebWords, query_lower) THEN <<None, "web">>
    ELSE IF AnyIn(TimeWords, query_lower) THEN <<None, "time">>
    ELSE IF AnyIn(LektorWords, query_lower) THEN <<"lektor", None>>
    ELSE IF AnyIn(SentimentWords, query_lower) THEN <<"sentiment", None>>
    ELSE IF AnyIn(OptimizerWords, query_lower) THEN <<"optimizer", None>>
    ELSE IF AnyIn(QueryRefWords, query_lower) THEN <<"query_ref", None>>
    ELSE <<"optimizer", None>>

\* variant: the optimizer group is tested before the sentiment group
DetermineTarget_OptimizerSecond(query) ==
    LET query_lower == Lower(query) IN
    IF has_search(query_lower) /\ has_analysis(query_lower)
        THEN <<"multi_step", "search_and_analyze">>
    ELSE IF AnyIn(LektorWords, query_lower) THEN <<"lektor", None>>
    ELSE IF AnyIn(OptimizerWords, query_lower) THEN <<"optimizer", None>>
    ELSE IF AnyIn(SentimentWords, query_lower) THEN <<"sentiment", None>>
    ELSE IF AnyIn(QueryRefWords, query_lower) THEN <<"query_ref", None>>
    ELSE IF AnyIn(SearchWords, query_lower) THEN <<None, "search">>
    ELSE IF AnyIn(WebWords, query_lower) THEN <<None, "web">>
    ELSE IF AnyIn(TimeWords, query_lower) THEN <<None, "time">>
    ELSE <<"optimizer", None>>

\* variant: the page-extraction group is tested before the search group
DetermineTarget_WebBeforeSearch(query) ==
    LET query_lower == Lower(query) IN
    IF has_search(query_lower) /\ has_analysis(query_lower)
        THEN <<"multi_step", "search_and_analyze">>
    ELSE IF AnyIn(LektorWords, query_lower) THEN <<"lektor", None>>
    ELSE IF AnyIn(SentimentWords, query_lower) THEN <<"sentiment", None>>
    ELSE IF AnyIn(OptimizerWords, query_lower) THEN <<"optimizer", None>>
    ELSE IF AnyIn(QueryRefWords, query_lower) THEN <<"query_ref", None>>
    ELSE IF AnyIn(WebWords, query_lower) THEN <<None, "web">>
    ELSE IF AnyIn(SearchWords, query_lower) THEN <<None, "search">>
    ELSE IF AnyIn(TimeWords, query_lower) THEN <<None, "time">>
    ELSE <<"optimizer", None>>

\* the pair (agent_type, service_type)
DetermineTarget(query) ==
    LET query_lower == Lower(query) IN
    IF has_search(query_lower) /\ has_analysis(query_lower)
        THEN <<"multi_step", "search_and_analyze">>
    ELSE IF AnyIn(LektorWords, query_lower) THEN <<"lektor", None>>
    ELSE IF AnyIn(SentimentWords, query_lower) THEN <<"sentiment", None>>
    ELSE IF AnyIn(OptimizerWords, query_lower) THEN <<"optimizer", None>>
    ELSE IF AnyIn(QueryRefWords, query_lower) THEN <<"query_ref", None>>
    ELSE IF AnyIn(SearchWords, query_lower) THEN <<None, "search">>
    ELSE IF AnyIn(WebWords, query_lower) THEN <<None, "web">>
    ELSE IF AnyIn(TimeWords, query_lower) THEN <<None, "time">>
    ELSE <<"optimizer", None>>

----------------------------------------------------------------------------
(* Classifier inputs: up to MaxWords words of Vocabulary joined by blanks *)

Vocabulary ==
    { "Suche", "nachrichten", "web", "Zusammenfassung", "Bericht", "analysiere",
      "Fehler", "Fehlerbericht", "Stimmung", "Stil", "query", "Website", "url", "Zeit",
      "Hallo", "Webseite", "Inhalt", "extrahiere" }

RECURSIVE Phrases(_)
Phrases(n) ==
    IF n = 0 THEN {""}
    ELSE IF n = 1 THEN Vocabulary
    ELSE { p \o " " \o w : p \in Phrases(n - 1), w \in Vocabulary }

\* the request of the documented search-and-summarize scenario
ScenarioQuery ==
    "Suche nach Neuigkeiten zu Quantencomputern und fasse die Ergebnisse zusammen"

ClassifierQueries == UNION { Phrases(n) : n \in 0..MaxWords } \cup {ScenarioQuery}

----------------------------------------------------------------------------
(* InterfaceAgent._extract_search_terms *)

FillerPhrases == <<"suche nach", "finde", "informationen über", "nachrichten über", "berichte über">>
SummaryPhrases == <<"und fass", "zusammenfass", "essay", "bericht", "analyse">>
DefaultSearchTerm == "aktuelle nachrichten"

\* the first loop, from phrase k on
RECURSIVE RemoveFillers(_, _)
RemoveFillers(query_lower, k) ==
    IF k > Len(FillerPhrases) THEN query_lower
    ELSE IF Contains(query_lower, FillerPhrases[k])
        THEN RemoveFillers(Strip(Remove(query_lower, FillerPhrases[k])), k + 1)
    ELSE RemoveFillers(query_lower, k + 1)

\* the second loop, from phrase k on; it stops at the first phrase found
RECURSIVE CutAtSummary(_, _)
CutAtSummary(query_lower, k) ==
    IF k > Len(SummaryPhrases) THEN query_lower
    ELSE IF Contains(query_lower, SummaryPhrases[k])
        THEN Strip(SplitHead(query_lower, SummaryPhrases[k]))
    ELSE CutAtSummary(query_lower, k + 1)

\* variant: the phrases are looked up in the query as typed
ExtractSearchTerms_KeepCase(query) ==
    LET stripped == Strip(CutAtSummary(RemoveFillers(query, 1), 1))
    IN IF stripped # "" THEN stripped ELSE DefaultSearchTerm

\* variant: no default term
ExtractSearchTerms_NoDefault(query) ==
    Strip(CutAtSummary(RemoveFillers(Lower(query), 1), 1))

ExtractSearchTerms(query) ==
    LET stripped == Strip(CutAtSummary(RemoveFillers(Lower(query), 1), 1))
    IN IF stripped # "" THEN stripped ELSE DefaultSearchTerm

\* Extraction inputs: a "suche nach" request with up to MaxWords words
\* before "und fasse" and some text after it
ExtractVocabulary ==
    { "Neuigkeiten", "zu", "KI", "Nachrichten über", "finde", "Berichte über", "Bericht",
      "befinden" }

RECURSIVE Middles(_)
Middles(n) ==
    IF n = 0 THEN {""}
    ELSE { m \o " " \o w : m \in Middles(n - 1), w \in ExtractVocabulary }

ExtractPrefixes == { "Suche nach", "suche nach" }
ExtractTails == { "", " die Ergebnisse zusammen", " einen Bericht, finde ich" }

ExtractQueries ==
    { p \o m \o " und fasse" \o t :
        p \in ExtractPrefixes, m \in UNION { Middles(n) : n \in 0..MaxWords },
        t \in ExtractTails }
    \cup {ScenarioQuery}

----------------------------------------------------------------------------
(* Dictionaries, responses of BaseAgent, outcomes of Agent.run *)

DictGet(d, k, default) == IF k \in DOMAIN d THEN d[k] ELSE default

EmptyDict == [k \in {} |-> ""]

\* a data value of None
NoData == [none |-> TRUE]

Min(a, b) == IF a < b THEN a ELSE b
Max(a, b) == IF a > b THEN a ELSE b

\* str(e) of an exception raised by an external capability
ExcText == "connection refused"

\* variant: the error response carries a data payload
CreateErrorResponse_WithData(cls, message, error) ==
    [status |-> "error", message |-> message, error_details |-> error, agent |-> cls,
     data |-> [partial |-> TRUE]]

CreateErrorResponse(cls, message, error) ==
    [status |-> "error", message |-> message, error_details |-> error, agent |-> cls]

CreateSuccessResponse(cls, data, message) ==
    [status |-> "success", message |-> message, data |-> data, agent |-> cls]

\* Agent.run either raises or returns an object; attrs are the attributes
\* hasattr finds on it, str is str(object)
RunRaise == [kind |-> "raise", attrs |-> {}, data |-> "", content |-> "", str |-> ""]

RunObject(attrs, data, content, str) ==
    [kind |-> "object", attrs |-> attrs, data |-> data, content |-> content, str |-> str]

JsonPositive == "{\"label\": \"positive\", \"confidence\": 0.9, \"score\": 0.7}"
JsonNoLabel == "{\"score\": -0.4}"
JsonArray == "[\"positive\"]"

RunOutcomes ==
    { RunRaise,
      RunObject({"content"}, "", " Generierter Text ", "RunResponse(content)"),
      RunObject({"data", "content"}, "Strukturierte Daten", "Inhalt", "RunResponse(data)"),
      RunObject({"data", "content"}, "", "", "RunResponse(empty)"),
      RunObject({}, "", "", "Roher Text"),
      RunObject({"content"}, "", JsonPositive, "RunResponse(json)"),
      RunObject({"content"}, "", JsonNoLabel, "RunResponse(json)"),
      RunObject({"content"}, "", JsonArray, "RunResponse(json)") }

\* result.content if hasattr(result, "content") else str(result)
ContentOrStr(run) == IF "content" \in run.attrs THEN run.content ELSE run.str

\* the three-way extraction of optimizer_agent.py and interface_agent.py
ExtractRunText(run) ==
    IF "data" \in run.attrs /\ run.data # "" THEN Strip(run.data)
    ELSE IF "content" \in run.attrs THEN Strip(run.content)
    ELSE Strip(run.str)

\* json.loads on the outputs above; ok is FALSE on JSONDecodeError, object tells
\* whether the loaded value is a dict; confidence and score in hundredths
JsonLoads(s) ==
    IF s = JsonPositive
        THEN [ok |-> TRUE, object |-> TRUE,
              value |-> [label |-> "positive", confidence |-> 90, score |-> 70]]
    ELSE IF s = JsonNoLabel
        THEN [ok |-> TRUE, object |-> TRUE, value |-> [score |-> -40]]
    ELSE IF s = JsonArray
        THEN [ok |-> TRUE, object |-> FALSE, value |-> EmptyDict]
    ELSE [ok |-> FALSE, object |-> FALSE, value |-> EmptyDict]

\* str(e) of the AttributeError of sentiment_data.get on a loaded list
NoGetText == "'list' object has no attribute 'get'"

\* f"{x:.2f}" for x given in hundredths, 0 <= x
Fmt2(h) ==
    ToString(h \div 100) \o "." \o ToString((h % 100) \div 10) \o ToString(h % 10)

----------------------------------------------------------------------------
(* LektorAgent *)

LektorHandle(request_data, run) ==
    LET text == DictGet(request_data, "text", "") IN
    IF text = "" \/ Strip(text) = ""
        THEN CreateErrorResponse("LektorAgent", "No text provided for correction", None)
    ELSE IF run.kind = "raise"
        THEN CreateErrorResponse("LektorAgent", "Grammar correction failed", ExcText)
    ELSE CreateSuccessResponse("LektorAgent",
            [corrected_text |-> ContentOrStr(run), original_text |-> text,
             status |-> "success", message |-> "Grammar corrected successfully"],
            "Text corrected successfully")

----------------------------------------------------------------------------
(* SentimentAgent *)

positive_words == <<"gut", "toll", "super", "fantastisch", "großartig", "wunderbar",
                    "perfekt", "ausgezeichnet">>
negative_words == <<"schlecht", "schrecklich", "furchtbar", "katastrophal", "schlimm",
                    "ärgerlich", "enttäuschend">>

CountIn(words, s) == Cardinality({ k \in 1..Len(words) : Contains(s, words[k]) })

FallbackSentimentAnalysis(text) ==
    LET text_lower == Lower(text)
        positive_count == CountIn(positive_words, text_lower)
        negative_count == CountIn(negative_words, text_lower)
    IN  IF positive_count > negative_count
            THEN [label |-> "positive",
                  confidence |-> Min(80, 50 + positive_count * 10),
                  score |-> Min(100, positive_count * 30)]
        ELSE IF negative_count > positive_count
            THEN [label |-> "negative",
                  confidence |-> Min(80, 50 + negative_count * 10),
                  score |-> Max(-100, -(negative_count * 30))]
        ELSE [label |-> "neutral", confidence |-> 60, score |-> 0]

\* _analyze_sentiment with detailed = False; the dumped SentimentResponse
AnalyzeSentiment(text, run) ==
    IF run.kind = "raise"
        THEN [sentiment |-> [label |-> "neutral", confidence |-> 0, score |-> 0],
              emotions |-> <<>>, original_text |-> text, status |-> "error",
              message |-> "Analysis failed: " \o ExcText]
    ELSE IF JsonLoads(ContentOrStr(run)).ok /\ ~JsonLoads(ContentOrStr(run)).object
        THEN [sentiment |-> [label |-> "neutral", confidence |-> 0, score |-> 0],
              emotions |-> <<>>, original_text |-> text, status |-> "error",
              message |-> "Analysis failed: " \o NoGetText]
    ELSE
        LET parsed == JsonLoads(ContentOrStr(run))
            sentiment_data == IF parsed.ok THEN parsed.value
                              ELSE FallbackSentimentAnalysis(text)
        IN  [sentiment |-> [label |-> DictGet(sentiment_data, "label", "neutral"),
                            confidence |-> DictGet(sentiment_data, "confidence", 50),
                            score |-> DictGet(sentiment_data, "score", 0)],
             emotions |-> <<>>, original_text |-> text, status |-> "success",
             message |-> "Sentiment analysis completed"]

SentimentHandle(request_data, run) ==
    LET text == DictGet(request_data, "text", "") IN
    IF text = "" \/ Strip(text) = ""
        THEN CreateErrorResponse("SentimentAgent", "No text provided for sentiment analysis", None)
    ELSE CreateSuccessResponse("SentimentAgent", AnalyzeSentiment(text, run),
                               "Sentiment analysis completed")

----------------------------------------------------------------------------
(* OptimizerAgent *)

OptimizeTextWithLlm(text, tonality, run) ==
    IF run.kind = "raise" THEN text ELSE ExtractRunText(run)

OptimizerHandle(request_data, run) ==
    LET text == DictGet(request_data, "text", "")
        tonality == DictGet(request_data, "tonality", "friendly")
    IN  IF text = "" \/ Strip(text) = ""
            THEN CreateErrorResponse("OptimizerAgent", "No text provided for optimization", None)
        ELSE CreateSuccessResponse("OptimizerAgent",
                [optimized_text |-> OptimizeTextWithLlm(text, tonality, run),
                 original_text |-> text, tonality |-> tonality,
                 status |-> "success", message |-> "Text optimized successfully"],
                "Text optimized successfully")

----------------------------------------------------------------------------
(* QueryRefAgent *)

enhancement_rules == <<
    <<"Erkläre KI",
      "Erkläre mir ausführlich die Grundlagen der Künstlichen Intelligenz, einschließlich ihrer wichtigsten Anwendungsbereiche und aktuellen Entwicklungen.">>,
    <<"Was ist KI",
      "Was ist Künstliche Intelligenz? Bitte erkläre die Definition, Geschichte und verschiedene Arten von KI-Systemen.">>,
    <<"KI",
      "Künstliche Intelligenz: Bitte gib mir eine umfassende Erklärung zu Definition, Funktionsweise und praktischen Anwendungen.">>,
    <<"maschinelles Lernen",
      "Erkläre mir maschinelles Lernen detailliert, einschließlich der verschiedenen Algorithmen, Anwendungsfälle und wie es sich von traditioneller Programmierung unterscheidet.">>,
    <<"Machine Learning",
      "Erkläre mir maschinelles Lernen detailliert, einschließlich der verschiedenen Algorithmen, Anwendungsfälle und wie es sich von traditioneller Programmierung unterscheidet.">>,
    <<"Deep Learning",
      "Was ist Deep Learning? Erkläre mir die Konzepte neuronaler Netzwerke, deren Architektur und praktische Anwendungen.">>,
    <<"Python",
      "Erkläre mir die Programmiersprache Python, ihre Syntax, wichtigsten Features und Anwendungsbereiche.">>,
    <<"JavaScript",
      "Was ist JavaScript? Erkläre mir die Grundlagen, Syntax und wie es in der Webentwicklung verwendet wird.">> >>

\* s.split(p, 1)[1] for an s that contains p
RECURSIVE SplitRest(_, _)
SplitRest(s, p) ==
    IF StartsWith(s, p) THEN SubSeq(s, Len(p) + 1, Len(s))
    ELSE SplitRest(Tail(s), p)

\* len(s.split())
RECURSIVE WordCount(_)
WordCount(s) ==
    LET t == LStrip(s) IN
    IF t = "" THEN 0
    ELSE IF \E i \in 1..Len(t) : IsSpace(CharAt(t, i))
        THEN 1 + WordCount(SubSeq(t, (CHOOSE i \in 1..Len(t) :
                                        /\ IsSpace(CharAt(t, i))
                                        /\ \A j \in 1..(i - 1) : ~IsSpace(CharAt(t, j))),
                                  Len(t)))
    ELSE 1

ExtractQueryFromInput(full_text) ==
    IF Contains(full_text, ":") THEN Strip(SplitRest(full_text, ":")) ELSE full_text

ApplyGeneralEnhancements(query) ==
    IF WordCount(query) < 3
        THEN "Bitte erkläre mir ausführlich das Thema '" \o query
             \o "' mit praktischen Beispielen und Hintergrundinformationen."
    ELSE IF ~(query # "" /\ CharAt(query, Len(query)) = "?")
        THEN query \o "? Bitte gib mir eine detaillierte Antwort mit Beispielen."
    ELSE query \o " Bitte strukturiere deine Antwort mit klaren Abschnitten und praktischen Beispielen."

EnhanceQuery(text) ==
    LET query_to_improve == ExtractQueryFromInput(text)
        hits == { k \in 1..Len(enhancement_rules) :
                    Contains(Lower(query_to_improve), Lower(enhancement_rules[k][1])) }
    IN  IF hits # {}
            THEN enhancement_rules[CHOOSE k \in hits : \A j \in hits : k <= j][2]
        ELSE ApplyGeneralEnhancements(query_to_improve)

QueryRefHandle(request_data) ==
    LET text == DictGet(request_data, "text", "") IN
    IF text = "" \/ Strip(text) = ""
        THEN CreateErrorResponse("QueryRefAgent", "No text provided for query refinement", None)
    ELSE CreateSuccessResponse("QueryRefAgent",
            [query |-> EnhanceQuery(text), original_text |-> text,
             status |-> "success", message |-> "Query enhanced successfully"],
            "Query enhanced successfully")

\* what self.run did inside the handler, None when the handler returns without
\* calling it
HandlerRun(agent_id, request_data, run) ==
    LET text == DictGet(request_data, "text", "") IN
    IF agent_id = "query_ref" \/ text = "" \/ Strip(text) = "" THEN NoData ELSE run

\* agent.handle_request({"data": request_data}) of the registered instance
AgentHandleRequest(agent_id, request_data, run) ==
    IF agent_id = "lektor" THEN LektorHandle(request_data, run)
    ELSE IF agent_id = "sentiment" THEN SentimentHandle(request_data, run)
    ELSE IF agent_id = "optimizer" THEN OptimizerHandle(request_data, run)
    ELSE QueryRefHandle(request_data)

----------------------------------------------------------------------------
(* AgentManager: registry and services *)

AgentIds == {"lektor", "optimizer", "sentiment", "query_ref"}

agent_id_map ==
    [LektorAgent |-> "lektor", OptimizerAgent |-> "optimizer",
     SentimentAgent |-> "sentiment", QueryRefAgent |-> "query_ref"]

ManagerError(message) == [status |-> "error", message |-> message, data |-> NoData]

\* call_agent up to the call of the instance: the error it returns without
\* calling one, or None when the instance is called
CallAgentLookup(agent_name, registered) ==
    IF agent_name \notin DOMAIN agent_id_map
        THEN ManagerError("Unknown agent: " \o agent_name)
    ELSE IF agent_id_map[agent_name] \notin registered
        THEN ManagerError("Agent " \o agent_id_map[agent_name] \o " not available")
    ELSE [status |-> None]

\* the i-th raw result of the search backend; some lack a link
RawResult(i) ==
    IF i % 2 = 0
        THEN [title |-> "Titel " \o ToString(i), body |-> "Text " \o ToString(i)]
    ELSE [title |-> "Titel " \o ToString(i), href |-> "https://example.org/" \o ToString(i),
          body |-> "Text " \o ToString(i)]

SearchOutcomes ==
    {[kind |-> "raise", n |-> 0]} \cup { [kind |-> "results", n |-> n] : n \in 0..MaxResults }

CallSearchService(request_data, out) ==
    LET query == DictGet(request_data, "query", "")
        max_results == DictGet(request_data, "max_results", 5)
        formatted_results ==
            [i \in 1..Min(out.n, max_results) |->
                [title |-> DictGet(RawResult(i), "title", "No title"),
                 url |-> DictGet(RawResult(i), "href", "No URL"),
                 snippet |-> DictGet(RawResult(i), "body", "No description")]]
    IN  IF query = "" THEN ManagerError("No search query provided")
        ELSE IF out.kind = "raise" THEN ManagerError("Search failed: " \o ExcText)
        ELSE [status |-> "success",
              message |-> "Found " \o ToString(Len(formatted_results)) \o " search results",
              data |-> [results |-> formatted_results, query |-> query,
                        total_results |-> Len(formatted_results)]]

WebContentLimit == 1000

WebOutcomes ==
    { [kind |-> "raise", content |-> ""],
      [kind |-> "page", content |-> ""],
      [kind |-> "page", content |-> "Seiteninhalt der Beispielseite"] }

CallWebService(request_data, out) ==
    LET url == DictGet(request_data, "url", "")
        content == IF out.content = ""
                   THEN "Could not extract meaningful content from the webpage"
                   ELSE out.content
    IN  IF url = "" THEN ManagerError("No URL provided")
        ELSE IF out.kind = "raise" THEN ManagerError("Web extraction failed: " \o ExcText)
        ELSE [status |-> "success", message |-> "Website content extracted",
              data |-> [url |-> url,
                        content |-> IF Len(content) > WebContentLimit
                                    THEN SubSeq(content, 1, WebContentLimit) \o "..."
                                    ELSE content,
                        full_length |-> Len(content)]]

NowText == "2025-01-01 12:00:00"

TimeOutcomes == { [kind |-> "raise"], [kind |-> "ntp"], [kind |-> "no_ntp"] }

CallTimeService(request_data, out) ==
    IF out.kind = "raise" THEN ManagerError("Time service failed: " \o ExcText)
    ELSE [status |-> "success", message |-> "Time information retrieved",
          data |-> [time_info |-> IF out.kind = "ntp"
                                  THEN "Current time: " \o NowText \o ", NTP time: " \o NowText
                                  ELSE "Current time: " \o NowText \o " (NTP not available)",
                    timestamp |-> 1735732800,
                    formatted_time |-> NowText]]

ServiceOutcomes(service_name) ==
    IF service_name = "SearchService" THEN SearchOutcomes
    ELSE IF service_name = "WebService" THEN WebOutcomes
    ELSE TimeOutcomes

CallService(service_name, request_data, out) ==
    IF service_name = "SearchService" THEN CallSearchService(request_data, out)
    ELSE IF service_name = "WebService" THEN CallWebService(request_data, out)
    ELSE IF service_name = "TimeService" THEN CallTimeService(request_data, out)
    ELSE ManagerError("Unknown service: " \o service_name)

----------------------------------------------------------------------------
(* InterfaceAgent: single-target dispatch *)

agent_map ==
    [lektor |-> "LektorAgent", sentiment |-> "SentimentAgent",
     optimizer |-> "OptimizerAgent", query_ref |-> "QueryRefAgent"]

service_map == [search |-> "SearchService", web |-> "WebService", time |-> "TimeService"]

\* str(e) of the AttributeError raised on self.agent_manager = None
NoManagerText(method) == "'NoneType' object has no attribute '" \o method \o "'"

\* variant: the caller's parameters are passed through next to the text
AgentRequestData_PassThrough(agent_type, query, parameters) ==
    [k \in DOMAIN parameters \cup {"text"} |-> IF k = "text" THEN query ELSE parameters[k]]

\* request_data of _call_agent
AgentRequestData(agent_type, query, parameters) ==
    IF agent_type = "lektor" THEN [text |-> query]
    ELSE IF agent_type = "sentiment"
        THEN [text |-> query, language |-> DictGet(parameters, "language", "de")]
    ELSE IF agent_type = "optimizer"
        THEN [text |-> query, tonality |-> DictGet(parameters, "tonality", "friendly")]
    ELSE [query |-> query, context |-> DictGet(parameters, "context", "")]

\* what _call_agent returns for the response of agent_manager.call_agent
FormatAgentResponse(agent_type, query, response) ==
    IF response.status = "success" THEN
        LET data == DictGet(response, "data", EmptyDict) IN
        IF agent_type = "lektor"
            THEN <<"Korrigierter Text: " \o DictGet(data, "corrected_text", query), data>>
        ELSE IF agent_type = "sentiment"
            THEN LET sentiment == DictGet(data, "sentiment", EmptyDict) IN
                 <<"Sentiment: " \o DictGet(sentiment, "label", "unknown")
                   \o " (Confidence: " \o Fmt2(DictGet(sentiment, "confidence", 0)) \o ")", data>>
        ELSE IF agent_type = "optimizer"
            THEN <<"Optimierter Text: " \o DictGet(data, "optimized_text", query), data>>
        ELSE <<"Verbesserte Suchanfrage: " \o DictGet(data, "refined_query", query), data>>
    ELSE <<"Fehler bei " \o agent_map[agent_type] \o ": "
           \o DictGet(response, "message", "Unbekannter Fehler"), NoData>>

\* request_data of _call_service
ServiceRequestData(service_type, query, parameters) ==
    IF service_type = "search"
        THEN [query |-> query, max_results |-> DictGet(parameters, "max_results", 5)]
    ELSE IF service_type = "web" THEN [url |-> DictGet(parameters, "url", query)]
    ELSE [query |-> query]

\* "\n".join of "- title: url" over results[from..]
RECURSIVE ResultLines(_, _)
ResultLines(results, from) ==
    IF from > Len(results) THEN ""
    ELSE "- " \o DictGet(results[from], "title", "No title") \o ": "
         \o DictGet(results[from], "url", "No URL")
         \o (IF from < Len(results) THEN "\n" ELSE "")
         \o ResultLines(results, from + 1)

SummaryResults == 3
WebPreviewLimit == 200

\* what _call_service returns for the response of agent_manager.call_service
FormatServiceResponse(service_type, response) ==
    IF response.status = "success" THEN
        LET data == response.data IN
        IF service_type = "search"
            THEN LET results == DictGet(data, "results", <<>>) IN
                 <<"Suchergebnisse:\n"
                   \o ResultLines(SubSeq(results, 1, Min(SummaryResults, Len(results))), 1), data>>
        ELSE IF service_type = "web"
            THEN LET content == DictGet(data, "content", "Kein Inhalt") IN
                 <<"Website-Inhalt extrahiert: "
                   \o SubSeq(content, 1, Min(WebPreviewLimit, Len(content))) \o "...", data>>
        ELSE <<"Zeitinformation: "
               \o DictGet(data, "time_info", "Keine Zeitinformation verfügbar"), data>>
    ELSE <<"Fehler bei " \o service_map[service_type] \o ": "
           \o DictGet(response, "message", "Unbekannter Fehler"), NoData>>

----------------------------------------------------------------------------
(* InterfaceAgent: search-and-analyze pipeline *)

RECURSIVE PrepareContentForAnalysis(_, _)
PrepareContentForAnalysis(results, i) ==
    IF i > Len(results) THEN ""
    ELSE "\nARTIKEL " \o ToString(i) \o ":\nTitel: "
         \o DictGet(results[i], "title", "Unbekannter Titel")
         \o "\nInhalt: " \o DictGet(results[i], "snippet", "Keine Beschreibung")
         \o "\nQuelle: " \o DictGet(results[i], "url", "Keine URL") \o "\n\n"
         \o PrepareContentForAnalysis(results, i + 1)

AnalysisPrompt(search_query, content_for_analysis, query) ==
    "Basierend auf den folgenden Suchergebnissen zum Thema \"" \o search_query
    \o "\", erstelle eine zusammenfassende Analyse:\n\n" \o content_for_analysis
    \o "\n\nBenutzeranfrage: " \o query
    \o "\n\nErstelle eine strukturierte Zusammenfassung mit:\n"
    \o "1. Überblick über die wichtigsten Trends und Entwicklungen\n"
    \o "2. Konkrete Beispiele aus den Suchergebnissen\n"
    \o "3. Fazit und Einschätzung\n\nAntworte auf Deutsch und strukturiert."

RECURSIVE SourceLines(_, _)
SourceLines(results, i) ==
    IF i > Len(results) THEN ""
    ELSE ToString(i) \o ". " \o DictGet(results[i], "title", "Unbekannter Titel")
         \o "\n   " \o DictGet(results[i], "url", "Keine URL") \o "\n"
         \o SourceLines(results, i + 1)

FinalResponse(search_query, results, analysis_text) ==
    "SUCHERGEBNISSE UND ANALYSE\n\nSuchbegriff: " \o search_query
    \o "\nGefundene Artikel: " \o ToString(Len(results))
    \o "\n\n=== ZUSAMMENFASSUNG ===\n\n" \o analysis_text
    \o "\n\n=== QUELLENANGABEN ===\n"
    \o SourceLines(SubSeq(results, 1, Min(SummaryResults, Len(results))), 1)

SearchFailedText(search_response) == "Suche fehlgeschlagen: " \o search_response.message
\* variant: the empty result is reported like a failed search
NoResultsText_AsFailure == "Suche fehlgeschlagen: Search failed: " \o ExcText
NoResultsText == "Keine Suchergebnisse gefunden für die Analyse."
PipelineErrorText(e) == "Fehler bei der Suche und Analyse: " \o e

----------------------------------------------------------------------------
(* The response envelope *)

InterfaceResponse(response, agent_used, original_query, data) ==
    [response |-> response, agent_used |-> agent_used, original_query |-> original_query,
     status |-> "success", message |-> "Request processed successfully", data |-> data]

\* what the entry point hands back for the envelope of _route_request
Returned(entry, envelope) ==
    IF entry = "handle_request"
        THEN CreateSuccessResponse("InterfaceAgent", envelope, "Request processed successfully")
    ELSE envelope

----------------------------------------------------------------------------
(* Inputs *)

ExplicitAgentTypes ==
    {None, "lektor", "sentiment", "optimizer", "query_ref", "translator", "multi_step"}

ExplicitServiceTypes == {None, "search", "web", "time", "mail", "search_and_analyze"}

ParameterSets ==
    { EmptyDict,
      [max_results |-> 1, language |-> "en", tonality |-> "formal", foo |-> "bar"],
      [url |-> "https://example.org/seite", context |-> "Kontext"] }

\* queries routed without an explicit target
AutoQueries ==
    { "", "  ", "Korrigiere: Das ist ein Fehler", "Analysiere die Stimmung: Ich bin sehr gut",
      "Analysiere die Stimmung: Ich bin sehr glücklich!",
      "Stimmung: schlecht und schlimm, sonst gut",
      "Bitte den Stil anpassen", "Query: Python", "Suche Quantencomputer",
      "Inhalt der URL lesen", "Wie spät ist es, welches Datum?", "Hallo Welt",
      "Suche nach Nachrichten über KI und fasse zusammen: Bericht",
      "Finde Fehler im Web und bewerte sie", "Bericht Essay", "Suche nach Bericht", "Website mit Grammatik",
      ScenarioQuery }

\* queries routed with an explicit target
ExplicitQueries == { "", " \n", "Das ist ein Fehler", "Suche Nachrichten Bericht" }

Requests ==
    { [query |-> q, agent_type |-> None, service_type |-> None, parameters |-> p] :
        q \in AutoQueries, p \in ParameterSets }
    \cup
    { [query |-> q, agent_type |-> a, service_type |-> s, parameters |-> p] :
        q \in ExplicitQueries, a \in ExplicitAgentTypes, s \in ExplicitServiceTypes,
        p \in ParameterSets }

----------------------------------------------------------------------------
(* State *)

NoRequest == [none |-> TRUE]
NoResult == [none |-> TRUE]
\* response is the reply of agent_manager.call_agent / call_service, raised the
\* str(e) of an exception caught by an except clause of InterfaceAgent, run what
\* the generative call of the called handler or of the pipeline did
NoContext == [agent_type |-> None, service_type |-> None, request_data |-> NoData,
              search_query |-> "", results |-> <<>>, response |-> NoData, raised |-> "",
              run |-> NoData]
UnsetTarget == <<"", "">>

\* no shutdown has run
NoShutdown == [manager |-> None, invoked |-> <<>>, raising |-> {}, logged |-> <<>>,
               raised |-> FALSE]

\* the frame of an invocation that has not started
IdleFrame == [pc |-> "idle", req |-> NoRequest, ctx |-> NoContext, calls |-> <<>>,
              result |-> NoResult]

RouteInit ==
    /\ other = IdleFrame
    /\ mcp = [initialized |-> FALSE, services |-> {}]
    /\ down = NoShutdown
    /\ initialized = FALSE
    /\ agent_manager = FALSE
    /\ mgr_initialized = FALSE
    /\ agents = {}
    /\ register_runs = 0
    /\ reg_failed = {}
    /\ pc = "idle"
    /\ req = NoRequest
    /\ ctx = NoContext
    /\ calls = <<>>
    /\ result = NoResult

Init ==
    /\ RouteInit
    /\ cls_in = ""
    /\ cls_out = UnsetTarget
    /\ ext_in = ""
    /\ ext_out = <<>>

----------------------------------------------------------------------------
(* InterfaceAgent.initialize: _setup builds a fresh AgentManager and         *)
(* initializes it.  A2A set-up may raise; each registration may fail.        *)

\* BaseAgent.initialize returns at once when _initialized is set
InitializeAgain ==
    /\ pc = "idle"
    /\ initialized
    /\ UNCHANGED vars

\* the fresh manager's initialize raises before _register_agents
InitializeFails ==
    /\ pc = "idle"
    /\ ~initialized
    /\ agent_manager' = TRUE
    /\ mgr_initialized' = FALSE
    /\ agents' = {}
    /\ register_runs' = 0
    /\ reg_failed' = {}
    /\ UNCHANGED <<initialized, pc, req, ctx, calls, result,
                   pureVars, sideVars>>

\* variant: one try/except around the whole loop, so the first failing
\* registration ends _register_agents and initialize raises
Initialize_AbortOnFailure(failed) ==
    /\ pc = "idle"
    /\ ~initialized
    /\ agent_manager' = TRUE
    /\ agents' = IF failed = {} THEN AgentIds ELSE {}
    /\ register_runs' = 1
    /\ reg_failed' = failed
    /\ mgr_initialized' = (failed = {})
    /\ initialized' = (failed = {})
    /\ UNCHANGED <<pc, req, ctx, calls, result, pureVars, sideVars>>

\* initialize of the fresh manager runs through; the registrations in failed
\* raise, each inside its own try/except
Initialize(failed) ==
    /\ pc = "idle"
    /\ ~initialized
    /\ agent_manager' = TRUE
    /\ agents' = AgentIds \ failed
    /\ register_runs' = 1
    /\ reg_failed' = failed
    /\ mgr_initialized' = TRUE
    /\ initialized' = TRUE
    /\ UNCHANGED <<pc, req, ctx, calls, result, pureVars, sideVars>>

----------------------------------------------------------------------------
(* Entry points and _route_request, up to the first external call *)

Finish(r, c, log, envelope) ==
    /\ pc' = "done"
    /\ req' = r
    /\ ctx' = c
    /\ calls' = log
    /\ result' = Returned(r.entry, envelope)

Suspend(where, r, c, log) ==
    /\ pc' = where
    /\ req' = r
    /\ ctx' = c
    /\ calls' = log
    /\ result' = NoResult

StartCallAgent(r, agent_type, service_type) ==
    LET c == [NoContext EXCEPT !.agent_type = agent_type, !.service_type = service_type]
        used == agent_type \o "Agent"
    IN  IF agent_type \notin DOMAIN agent_map
            THEN Finish(r, c, <<>>, InterfaceResponse(
                    "Unbekannter Agent-Typ: " \o agent_type, used, r.query, NoData))
        ELSE
            LET request_data == AgentRequestData(agent_type, r.query, r.parameters)
                c2 == [c EXCEPT !.request_data = request_data]
                lookup == CallAgentLookup(agent_map[agent_type], agents)
            IN  IF ~agent_manager
                    THEN Finish(r, [c2 EXCEPT !.raised = NoManagerText("call_agent")], <<>>,
                            InterfaceResponse(
                            "Fehler beim Aufruf von " \o agent_type \o ": "
                            \o NoManagerText("call_agent"), used, r.query, NoData))
                ELSE IF lookup.status # None
                    THEN Finish(r, [c2 EXCEPT !.response = lookup], <<>>, InterfaceResponse(
                            FormatAgentResponse(agent_type, r.query, lookup)[1], used, r.query,
                            FormatAgentResponse(agent_type, r.query, lookup)[2]))
                ELSE Suspend("agent_call", r, c2,
                        <<[op |-> "handler", target |-> agent_type, request |-> request_data]>>)

StartCallService(r, agent_type, service_type) ==
    LET c == [NoContext EXCEPT !.agent_type = agent_type, !.service_type = service_type]
        used == service_type \o "Service"
    IN  IF service_type \notin DOMAIN service_map
            THEN Finish(r, c, <<>>, InterfaceResponse(
                    "Unbekannter Service-Typ: " \o service_type, used, r.query, NoData))
        ELSE
            LET request_data == ServiceRequestData(service_type, r.query, r.parameters)
                c2 == [c EXCEPT !.request_data = request_data]
            IN  IF ~agent_manager
                    THEN Finish(r, [c2 EXCEPT !.raised = NoManagerText("call_service")], <<>>,
                            InterfaceResponse(
                            "Fehler beim Aufruf von " \o service_type \o ": "
                            \o NoManagerText("call_service"), used, r.query, NoData))
                ELSE Suspend("service_call", r, c2,
                        <<[op |-> "service", target |-> service_map[service_type],
                           request |-> request_data]>>)

StartSearchAndAnalyze(r, agent_type, service_type) ==
    LET search_query == ExtractSearchTerms(r.query)
        search_request == [query |-> search_query,
                           max_results |-> DictGet(r.parameters, "max_results", 5)]
        c == [NoContext EXCEPT !.agent_type = agent_type, !.service_type = service_type,
                               !.search_query = search_query,
                               !.request_data = search_request]
    IN  IF ~agent_manager
            THEN Finish(r, [c EXCEPT !.raised = NoManagerText("call_service")], <<>>,
                    InterfaceResponse(
                    PipelineErrorText(NoManagerText("call_service")),
                    "InterfaceAgent (Multi-Step)", r.query, NoData))
        ELSE Suspend("search_call", r, c,
                <<[op |-> "service", target |-> "SearchService", request |-> search_request]>>)

\* variant: the service branch is tested before the agent branch
RouteBranch_ServiceFirst(agent_type, service_type) ==
    IF agent_type = "multi_step" /\ service_type = "search_and_analyze" THEN "multi_step"
    ELSE IF Truthy(service_type) THEN "service"
    ELSE IF Truthy(agent_type) THEN "agent"
    ELSE "none"

\* the branch the if/elif chain of _route_request takes
RouteBranch(agent_type, service_type) ==
    IF agent_type = "multi_step" /\ service_type = "search_and_analyze" THEN "multi_step"
    ELSE IF Truthy(agent_type) THEN "agent"
    ELSE IF Truthy(service_type) THEN "service"
    ELSE "none"

\* the target _route_request works with
ResolveTarget(query, agent_type, service_type) ==
    IF ~Truthy(agent_type) /\ ~Truthy(service_type)
    THEN DetermineTarget(query)
    ELSE <<agent_type, service_type>>

RouteRequest(r) ==
    LET target == ResolveTarget(r.query, r.agent_type, r.service_type)
        agent_type == target[1]
        service_type == target[2]
        branch == RouteBranch(agent_type, service_type)
    IN  IF branch = "multi_step" THEN StartSearchAndAnalyze(r, agent_type, service_type)
        ELSE IF branch = "agent" THEN StartCallAgent(r, agent_type, service_type)
        ELSE IF branch = "service" THEN StartCallService(r, agent_type, service_type)
        ELSE Finish(r, [NoContext EXCEPT !.agent_type = agent_type,
                                         !.service_type = service_type], <<>>,
                InterfaceResponse(
                    "Ich konnte nicht bestimmen, welcher Agent oder Service für diese Anfrage geeignet ist.",
                    "InterfaceAgent", r.query, NoData))

WithEntry(request, entry) ==
    [entry |-> entry, query |-> request.query, agent_type |-> request.agent_type,
     service_type |-> request.service_type, parameters |-> request.parameters]

HandleRequest(request) ==
    /\ pc = "idle"
    /\ LET r == WithEntry(request, "handle_request") IN
       IF r.query = "" \/ Strip(r.query) = ""
           THEN /\ pc' = "done"
                /\ req' = r
                /\ ctx' = NoContext
                /\ calls' = <<>>
                /\ result' = CreateErrorResponse("InterfaceAgent", "No query provided", None)
       ELSE RouteRequest(r)
    /\ UNCHANGED <<registryVars, pureVars, sideVars>>

CoordinateRequest(request) ==
    /\ pc = "idle"
    /\ RouteRequest(WithEntry(request, "coordinate_request"))
    /\ UNCHANGED <<registryVars, pureVars, sideVars>>

----------------------------------------------------------------------------
(* Continuations after an external call *)

Complete(c, envelope) ==
    /\ pc' = "done"
    /\ ctx' = c
    /\ result' = Returned(req.entry, envelope)
    /\ UNCHANGED <<registryVars, req, calls,
                   pureVars, sideVars>>

\* the handler returns; run is what its generative call does
AgentReturns(run) ==
    /\ pc = "agent_call"
    /\ LET response == AgentHandleRequest(agent_id_map[agent_map[ctx.agent_type]],
                                          ctx.request_data, run)
           formatted == FormatAgentResponse(ctx.agent_type, req.query, response)
       IN  Complete([ctx EXCEPT !.response = response,
                                !.run = HandlerRun(agent_id_map[agent_map[ctx.agent_type]],
                                                   ctx.request_data, run)],
                    InterfaceResponse(formatted[1], ctx.agent_type \o "Agent",
                                             req.query, formatted[2]))

\* the service returns; out is what its backend does
ServiceReturns(out) ==
    /\ pc = "service_call"
    /\ out \in ServiceOutcomes(service_map[ctx.service_type])
    /\ LET response == CallService(service_map[ctx.service_type], ctx.request_data, out)
           formatted == FormatServiceResponse(ctx.service_type, response)
       IN  Complete([ctx EXCEPT !.response = response],
                    InterfaceResponse(formatted[1], ctx.service_type \o "Service",
                                             req.query, formatted[2]))

\* variant: the analysis is started whatever the search answered
SearchReturns_NoFailFast(out) ==
    /\ pc = "search_call"
    /\ LET search_response == CallService("SearchService", ctx.request_data, out)
           search_data == DictGet(search_response, "data", EmptyDict)
           results == DictGet(search_data, "results", <<>>)
       IN  /\ pc' = "llm_call"
           /\ ctx' = [ctx EXCEPT !.results = results, !.response = search_response]
           /\ calls' = Append(calls,
                 [op |-> "llm", target |-> "InterfaceAgent",
                  request |-> [prompt |-> AnalysisPrompt(ctx.search_query,
                                   PrepareContentForAnalysis(results, 1), req.query)]])
           /\ UNCHANGED <<registryVars, req, result, pureVars, sideVars>>

\* the search of the pipeline returns
SearchReturns(out) ==
    /\ pc = "search_call"
    /\ LET search_response == CallService("SearchService", ctx.request_data, out)
           search_data == DictGet(search_response, "data", EmptyDict)
           results == DictGet(search_data, "results", <<>>)
       IN  IF search_response.status # "success"
               THEN Complete([ctx EXCEPT !.response = search_response],
                        InterfaceResponse(SearchFailedText(search_response),
                        "InterfaceAgent (Multi-Step)", req.query, NoData))
           ELSE IF results = <<>>
               THEN Complete([ctx EXCEPT !.response = search_response],
                        InterfaceResponse(NoResultsText,
                        "InterfaceAgent (Multi-Step)", req.query, NoData))
           ELSE /\ pc' = "llm_call"
                /\ ctx' = [ctx EXCEPT !.results = results, !.response = search_response]
                /\ calls' = Append(calls,
                      [op |-> "llm", target |-> "InterfaceAgent",
                       request |-> [prompt |-> AnalysisPrompt(ctx.search_query,
                                        PrepareContentForAnalysis(results, 1), req.query)]])
                /\ UNCHANGED <<registryVars, req,
                               result, pureVars, sideVars>>

\* variant: a generative call that raised is made once more
AnalysisReturns_Retry(run) ==
    /\ pc = "llm_call"
    /\ IF run.kind = "raise" /\ Len(calls) < 3
           THEN /\ calls' = Append(calls, calls[Len(calls)])
                /\ UNCHANGED <<registryVars, pc, req, ctx, result, pureVars, sideVars>>
       ELSE IF run.kind = "raise"
           THEN Complete([ctx EXCEPT !.raised = ExcText, !.run = run],
                    InterfaceResponse(PipelineErrorText(ExcText),
                    "InterfaceAgent (Multi-Step)", req.query, NoData))
       ELSE LET analysis_text == ExtractRunText(run) IN
            Complete([ctx EXCEPT !.run = run], InterfaceResponse(
                FinalResponse(ctx.search_query, ctx.results, analysis_text),
                "InterfaceAgent (Multi-Step)", req.query,
                [search_results |-> ctx.results, analysis |-> analysis_text,
                 search_query |-> ctx.search_query, multi_step |-> TRUE]))

\* the generative call of the pipeline returns or raises
AnalysisReturns(run) ==
    /\ pc = "llm_call"
    /\ IF run.kind = "raise"
           THEN Complete([ctx EXCEPT !.raised = ExcText, !.run = run],
                    InterfaceResponse(PipelineErrorText(ExcText),
                    "InterfaceAgent (Multi-Step)", req.query, NoData))
       ELSE LET analysis_text == ExtractRunText(run) IN
            Complete([ctx EXCEPT !.run = run], InterfaceResponse(
                FinalResponse(ctx.search_query, ctx.results, analysis_text),
                "InterfaceAgent (Multi-Step)", req.query,
                [search_results |-> ctx.results, analysis |-> analysis_text,
                 search_query |-> ctx.search_query, multi_step |-> TRUE]))

----------------------------------------------------------------------------
(* Operations called on the AgentManager itself *)

ManagerData == { [text |-> "Das ist ein Fehler"], EmptyDict }

ManagerRequests ==
    { [entry |-> "process_request", target |-> t, data |-> d] :
        t \in {None, "lektor", "query_ref", "translator"}, d \in ManagerData }
    \cup
    { [entry |-> "call_agent", target |-> n, data |-> d] :
        n \in {"LektorAgent", "QueryRefAgent", "TranslatorAgent"}, d \in ManagerData }
    \cup
    { [entry |-> "call_service", target |-> n, data |-> d] :
        n \in {"SearchService", "TimeService", "MailService"},
        d \in {[query |-> "ki"], EmptyDict} }

\* what initialize does when process_request runs it: it raises, or it
\* registers all handlers but those whose registration fails
InitializeOutcomes ==
    {[kind |-> "raise", failed |-> {}]}
    \cup { [kind |-> "done", failed |-> f] :
             f \in { g \in SUBSET AgentIds : Cardinality(g) <= MaxRegFailures } }

ManagerFinish(m, response) ==
    /\ pc' = "mgr_done"
    /\ req' = m
    /\ ctx' = NoContext
    /\ calls' = <<>>
    /\ result' = response

ManagerSuspend(where, m, log) ==
    /\ pc' = where
    /\ req' = m
    /\ ctx' = NoContext
    /\ calls' = log
    /\ result' = NoResult

\* process_request initializes a manager that is not initialized yet
ProcessRequest(m, init) ==
    /\ pc = "idle"
    /\ agent_manager
    /\ m.entry = "process_request"
    /\ LET lazy == ~mgr_initialized
           registers == lazy /\ init.kind = "done"
           registered == IF registers THEN AgentIds \ init.failed ELSE agents
       IN  /\ agents' = registered
           /\ mgr_initialized' = (mgr_initialized \/ registers)
           /\ register_runs' = (IF registers THEN register_runs + 1 ELSE register_runs)
           /\ reg_failed' = (IF registers THEN init.failed ELSE reg_failed)
           /\ IF lazy /\ init.kind = "raise"
                  THEN ManagerFinish(m, ManagerError("Processing failed: " \o ExcText))
              ELSE IF ~Truthy(m.target)
                  THEN ManagerFinish(m, ManagerError("No agent type specified in request"))
              ELSE IF m.target \notin registered
                  THEN ManagerFinish(m, ManagerError(
                          "Agent type '" \o m.target \o "' not found"))
              ELSE ManagerSuspend("mgr_agent_call", m,
                      <<[op |-> "handler", target |-> m.target, request |-> m.data]>>)
    /\ UNCHANGED <<initialized, agent_manager, pureVars, sideVars>>

CallAgent(m) ==
    /\ pc = "idle"
    /\ agent_manager
    /\ m.entry = "call_agent"
    /\ LET lookup == CallAgentLookup(m.target, agents) IN
       IF lookup.status # None THEN ManagerFinish(m, lookup)
       ELSE ManagerSuspend("mgr_agent_call", m,
               <<[op |-> "handler", target |-> agent_id_map[m.target], request |-> m.data]>>)
    /\ UNCHANGED <<registryVars, pureVars, sideVars>>

CallServiceDirectly(m) ==
    /\ pc = "idle"
    /\ agent_manager
    /\ m.entry = "call_service"
    /\ IF m.target \notin {"SearchService", "WebService", "TimeService"}
           THEN ManagerFinish(m, ManagerError("Unknown service: " \o m.target))
       ELSE ManagerSuspend("mgr_service_call", m,
               <<[op |-> "service", target |-> m.target, request |-> m.data]>>)
    /\ UNCHANGED <<registryVars, pureVars, sideVars>>

ManagerAgentReturns(run) ==
    /\ pc = "mgr_agent_call"
    /\ pc' = "mgr_done"
    /\ result' = AgentHandleRequest(calls[1].target, req.data, run)
    /\ UNCHANGED <<registryVars, req, ctx, calls, pureVars, sideVars>>

ManagerServiceReturns(out) ==
    /\ pc = "mgr_service_call"
    /\ out \in ServiceOutcomes(req.target)
    /\ pc' = "mgr_done"
    /\ result' = CallService(req.target, req.data, out)
    /\ UNCHANGED <<registryVars, req, ctx, calls, pureVars, sideVars>>

\* the caller takes the returned value; the locals of the call are gone
Deliver ==
    /\ pc \in {"done", "mgr_done"}
    /\ pc' = "idle"
    /\ req' = NoRequest
    /\ ctx' = NoContext
    /\ calls' = <<>>
    /\ result' = NoResult
    /\ UNCHANGED <<registryVars, pureVars, sideVars>>

----------------------------------------------------------------------------
(* MCPServerManager.initialize and the shutdown of both managers *)

ServiceIds == {"search", "web", "time"}

\* the registries are dicts: their entries come in insertion order
AgentOrder == <<"lektor", "optimizer", "sentiment", "query_ref">>
ServiceOrder == <<"search", "web", "time">>

Entries(order, keys) == SelectSeq(order, LAMBDA k : k \in keys)

\* the handlers that inherit BaseAgent.shutdown, which logs what _cleanup raises
BaseShutdownAgents == {"optimizer", "query_ref"}

McpInitializeOutcomes ==
    {[kind |-> "raise", failed |-> {}]}
    \cup { [kind |-> "ok", failed |-> f] :
            f \in { g \in SUBSET ServiceIds : Cardinality(g) <= MaxRegFailures } }

\* MCPServerManager.initialize: the server set-up raises, or each service but
\* those whose registration fails is stored
McpInitialize(out) ==
    /\ pc = "idle"
    /\ ~mcp.initialized
    /\ mcp' = IF out.kind = "raise" THEN mcp
              ELSE [initialized |-> TRUE, services |-> ServiceIds \ out.failed]
    /\ UNCHANGED <<routeVars, pureVars, down, other>>

\* variant: the first shutdown() that raises ends the loop
RECURSIVE ShutdownLoop_StopAtRaise(_, _, _, _, _)
ShutdownLoop_StopAtRaise(entries, kind, raising, quiet, log) ==
    IF entries = <<>> THEN log
    ELSE LET id == Head(entries)
             called == [log EXCEPT !.invoked = Append(@, id)]
         IN  IF id \in raising
                 THEN [called EXCEPT !.logged = Append(@, "Error during shutdown: " \o ExcText)]
             ELSE ShutdownLoop_StopAtRaise(Tail(entries), kind, raising, quiet,
                     IF id \in quiet
                         THEN [called EXCEPT
                                 !.logged = Append(@, "Error during shutdown: " \o ExcText)]
                     ELSE called)

\* the loop over the entries of a registry: shutdown() is awaited on each;
\* what it raises is logged by the manager, what its _cleanup raises (quiet)
\* is logged by BaseAgent.shutdown, which then returns
RECURSIVE ShutdownLoop(_, _, _, _, _)
ShutdownLoop(entries, kind, raising, quiet, log) ==
    IF entries = <<>> THEN log
    ELSE LET id == Head(entries)
             called == [log EXCEPT !.invoked = Append(@, id)]
         IN  ShutdownLoop(Tail(entries), kind, raising, quiet,
                 IF id \in raising
                     THEN [called EXCEPT
                             !.logged = Append(@, "Error shutting down " \o kind \o " "
                                                  \o id \o ": " \o ExcText)]
                 ELSE IF id \in quiet
                     THEN [called EXCEPT
                             !.logged = Append(@, "Error during shutdown: " \o ExcText)]
                 ELSE called)

\* AgentManager.shutdown; close_raises: httpx_client.aclose() raises
Shutdown(raising, cleanup_raising, close_raises) ==
    /\ pc = "idle"
    /\ raising \subseteq agents
    /\ cleanup_raising \subseteq (agents \cap BaseShutdownAgents) \ raising
    /\ LET log == ShutdownLoop(Entries(AgentOrder, agents), "agent", raising,
                               cleanup_raising,
                               [NoShutdown EXCEPT !.manager = "AgentManager",
                                                  !.raising = raising])
       IN  down' = IF close_raises
                   THEN [log EXCEPT !.logged = Append(@, "Error during shutdown: " \o ExcText)]
                   ELSE log
    /\ UNCHANGED <<routeVars, pureVars, mcp, other>>

\* MCPServerManager.shutdown; no client is ever stored in clients
McpShutdown(raising) ==
    /\ pc = "idle"
    /\ raising \subseteq mcp.services
    /\ down' = ShutdownLoop(Entries(ServiceOrder, mcp.services), "service", raising, {},
                            [NoShutdown EXCEPT !.manager = "MCPServerManager",
                                               !.raising = raising])
    /\ UNCHANGED <<routeVars, pureVars, mcp, other>>

----------------------------------------------------------------------------
(* Two invocations of the router on one InterfaceAgent *)

\* variant: the request is kept in one place shared by both invocations
Switch_SharedRequest ==
    /\ pc \in {"idle", "agent_call", "service_call", "search_call", "llm_call", "done"}
    /\ pc' = other.pc
    /\ req' = IF req # NoRequest /\ other.req # NoRequest THEN req ELSE other.req
    /\ ctx' = other.ctx
    /\ calls' = other.calls
    /\ result' = other.result
    /\ other' = [pc |-> pc, req |-> IF req # NoRequest /\ other.req # NoRequest
                                    THEN other.req ELSE req,
                 ctx |-> ctx, calls |-> calls, result |-> result]
    /\ UNCHANGED <<registryVars, pureVars, mcp, down>>

\* the event loop resumes the other invocation while this one waits at an
\* await, has not started or has returned; query, target, request data and
\* responses are locals of the coroutine and go with it
Switch ==
    /\ pc \in {"idle", "agent_call", "service_call", "search_call", "llm_call", "done"}
    /\ pc' = other.pc
    /\ req' = other.req
    /\ ctx' = other.ctx
    /\ calls' = other.calls
    /\ result' = other.result
    /\ other' = [pc |-> pc, req |-> req, ctx |-> ctx, calls |-> calls, result |-> result]
    /\ UNCHANGED <<registryVars, pureVars, mcp, down>>

\* the requests of the two invocations: one per branch of _route_request
ConcurrentRequests ==
    { [query |-> q, agent_type |-> None, service_type |-> None, parameters |-> EmptyDict] :
        q \in { "", "Korrigiere: Das ist ein Fehler", "Welches Datum ist heute?",
                "Suche nach KI und fasse zusammen: Bericht" } }

\* the registries the two invocations run on: complete, and one handler short
ConcurrentRegistries == { AgentIds, AgentIds \ {"lektor"} }

\* a router that has been set up, and no invocation started
ConcurrentInit ==
    /\ initialized = TRUE
    /\ agent_manager = TRUE
    /\ mgr_initialized = TRUE
    /\ agents \in ConcurrentRegistries
    /\ register_runs = 1
    /\ reg_failed = AgentIds \ agents
    /\ pc = "idle"
    /\ req = NoRequest
    /\ ctx = NoContext
    /\ calls = <<>>
    /\ result = NoResult
    /\ other = IdleFrame
    /\ mcp = [initialized |-> FALSE, services |-> {}]
    /\ down = NoShutdown
    /\ cls_in = ""
    /\ cls_out = UnsetTarget
    /\ ext_in = ""
    /\ ext_out = <<>>

ConcurrentNext ==
    \/ \E request \in ConcurrentRequests : HandleRequest(request)
    \/ \E request \in ConcurrentRequests : CoordinateRequest(request)
    \/ \E run \in RunOutcomes : AgentReturns(run)
    \/ \E out \in SearchOutcomes \cup WebOutcomes \cup TimeOutcomes : ServiceReturns(out)
    \/ \E out \in SearchOutcomes : SearchReturns(out)
    \/ \E run \in RunOutcomes : AnalysisReturns(run)
    \/ Switch

SpecConcurrent == ConcurrentInit /\ [][ConcurrentNext]_vars

----------------------------------------------------------------------------
(* Specifications *)

Next ==
    \/ InitializeAgain
    \/ InitializeFails
    \/ \E failed \in SUBSET AgentIds :
          Cardinality(failed) <= MaxRegFailures /\ Initialize(failed)
    \/ \E request \in Requests : HandleRequest(request)
    \/ \E request \in Requests : CoordinateRequest(request)
    \/ \E run \in RunOutcomes : AgentReturns(run)
    \/ \E out \in SearchOutcomes \cup WebOutcomes \cup TimeOutcomes : ServiceReturns(out)
    \/ \E out \in SearchOutcomes : SearchReturns(out)
    \/ \E run \in RunOutcomes : AnalysisReturns(run)
    \/ \E m \in ManagerRequests, init \in InitializeOutcomes : ProcessRequest(m, init)
    \/ \E m \in ManagerRequests : CallAgent(m)
    \/ \E m \in ManagerRequests : CallServiceDirectly(m)
    \/ \E run \in RunOutcomes : ManagerAgentReturns(run)
    \/ \E out \in SearchOutcomes \cup TimeOutcomes : ManagerServiceReturns(out)
    \/ Deliver

Spec == Init /\ [][Next]_vars

\* set-up and shutdown of the two managers
ShutdownNext ==
    \/ InitializeFails
    \/ \E failed \in SUBSET AgentIds :
          Cardinality(failed) <= MaxRegFailures /\ Initialize(failed)
    \/ \E out \in McpInitializeOutcomes : McpInitialize(out)
    \/ \E raising \in SUBSET AgentIds, cleanup_raising \in SUBSET AgentIds,
          close_raises \in BOOLEAN : Shutdown(raising, cleanup_raising, close_raises)
    \/ \E raising \in SUBSET ServiceIds : McpShutdown(raising)

SpecShutdown == Init /\ [][ShutdownNext]_vars

\* stand-alone classification of one query
ClassifyInit ==
    /\ RouteInit
    /\ cls_in \in ClassifierQueries
    /\ cls_out = UnsetTarget
    /\ ext_in = ""
    /\ ext_out = <<>>

Classify ==
    /\ cls_out = UnsetTarget
    /\ cls_out' = DetermineTarget(cls_in)
    /\ UNCHANGED <<routeVars, sideVars, cls_in, ext_in, ext_out>>

ClassifyNext == Classify

SpecClassify == ClassifyInit /\ [][ClassifyNext]_vars

\* stand-alone term extraction of one query
ExtractInit ==
    /\ RouteInit
    /\ cls_in = ""
    /\ cls_out = UnsetTarget
    /\ ext_in \in ExtractQueries
    /\ ext_out = <<>>

Extract ==
    /\ ext_out = <<>>
    /\ ext_out' = <<ExtractSearchTerms(ext_in)>>
    /\ UNCHANGED <<routeVars, sideVars, cls_in, cls_out, ext_in>>

ExtractNext == Extract

SpecExtract == ExtractInit /\ [][ExtractNext]_vars

----------------------------------------------------------------------------
(* Properties *)

\* the InterfaceResponse inside the returned value, NoData when there is none
Env == IF req.entry = "handle_request" THEN DictGet(result, "data", NoData) ELSE result

Returns == pc = "done"

\* a request to the router is in flight or has returned
InRoute == pc \in {"agent_call", "service_call", "search_call", "llm_call", "done"}

\* the router is set up and all four handlers are registered
FullyInitialized == mgr_initialized /\ agents = AgentIds

\* handle_request turned the request down before routing it
Rejected == req.entry = "handle_request" /\ Strip(req.query) = ""

NoExplicitTarget == ~Truthy(req.agent_type) /\ ~Truthy(req.service_type)

IsPipeline == RouteBranch(ctx.agent_type, ctx.service_type) = "multi_step"
IsAgentBranch == RouteBranch(ctx.agent_type, ctx.service_type) = "agent"
IsServiceBranch == RouteBranch(ctx.agent_type, ctx.service_type) = "service"

UnderlyingStatus == DictGet(ctx.response, "status", None)

NoCallOf(op) == \A i \in 1..Len(calls) : calls[i].op # op

CompositeCondition(query) ==
    LET lowered == Lower(query) IN
    /\ \E k \in 1..Len(SearchTriggerWords) : Contains(lowered, SearchTriggerWords[k])
    /\ \E k \in 1..Len(AnalysisTriggerWords) : Contains(lowered, AnalysisTriggerWords[k])

HandlerGroups ==
    [lektor |-> LektorWords, sentiment |-> SentimentWords,
     optimizer |-> OptimizerWords, query_ref |-> QueryRefWords]

MatchedGroups(query) ==
    LET lowered == Lower(query) IN
    { h \in DOMAIN HandlerGroups :
        \E k \in 1..Len(HandlerGroups[h]) : Contains(lowered, HandlerGroups[h][k]) }

MentionsMissingInput(message) ==
    Contains(Lower(message), "no ") /\ Contains(Lower(message), " provided")

\* C1: every query that contains a search-trigger keyword and an
\* analysis-trigger keyword is classified as the multi-step (composite)
\* target, whatever handler or service keywords it also contains.
C1_CompositeFirst ==
    (cls_out # UnsetTarget /\ CompositeCondition(cls_in))
        => cls_out = <<"multi_step", "search_and_analyze">>

\* a composite classification of a query that also holds a handler keyword
C1_Witness ==
    /\ cls_out = <<"multi_step", "search_and_analyze">>
    /\ MatchedGroups(cls_in) # {}

\* C2: an empty or whitespace-only query is answered with status=error and a
\* message that mentions the missing input, through handle_request and through
\* coordinate_request, for every explicit handler and service.
C2_EmptyQueryIsError ==
    (Returns /\ FullyInitialized /\ Strip(req.query) = "")
        => (result.status = "error" /\ MentionsMissingInput(result.message))

\* C3: when the handler or service a request was dispatched to answers
\* status=error, the envelope has status=error and its text embeds the
\* underlying message.
C3_UnderlyingErrorIsError ==
    (Returns /\ FullyInitialized /\ (IsAgentBranch \/ IsServiceBranch)
        /\ UnderlyingStatus = "error")
        => (Env.status = "error" /\ Contains(Env.response, ctx.response.message))

\* C4: when the search of the pipeline reports failure, the envelope has
\* status=error and no data, and the generative call is never made.
C4_SearchFailureIsError ==
    (Returns /\ FullyInitialized /\ IsPipeline /\ UnderlyingStatus = "error")
        => (Env.status = "error" /\ Env.data = NoData /\ NoCallOf("llm"))

\* C5: with an explicit registered handler and an explicit registered service,
\* the request goes to the handler and never to a service.
C5_ExplicitHandlerWins ==
    (InRoute /\ req.agent_type \in agents /\ req.service_type \in DOMAIN service_map)
        => /\ NoCallOf("service")
           /\ ~Rejected => /\ Len(calls) = 1
                           /\ calls[1].op = "handler"
                           /\ calls[1].target = req.agent_type

\* both explicit targets are given and the handler has been called
C5_Witness ==
    /\ Returns
    /\ req.agent_type = "sentiment"
    /\ req.service_type = "search"
    /\ Len(calls) = 1
    /\ calls[1].target = "sentiment"

\* C6: a query with keywords of exactly one handler group that is not
\* composite, routed without explicit target, goes to that handler and to
\* nothing else, and the envelope names that handler.
C6_SingleGroupDispatch ==
    (InRoute /\ NoExplicitTarget /\ Cardinality(MatchedGroups(req.query)) = 1
        /\ ~CompositeCondition(req.query))
        => LET h == CHOOSE g \in MatchedGroups(req.query) : TRUE IN
           /\ ctx.agent_type = h
           /\ \A i \in 1..Len(calls) : calls[i].op = "handler" /\ calls[i].target = h
           /\ h \in agents => Len(calls) = 1
           /\ Returns => Env.agent_used = h \o "Agent"

\* a query with a grammar keyword and a service keyword reached the grammar handler
C6_Witness ==
    /\ Returns
    /\ NoExplicitTarget
    /\ req.query = "Website mit Grammatik"
    /\ Len(calls) = 1
    /\ calls[1].target = "lektor"
    /\ Env.agent_used = "lektorAgent"

\* C7: in every returned value status=error comes with absent or null data,
\* and the display text (the envelope's response, or the message when no
\* envelope was built) is not empty.
C7_EnvelopeInvariant ==
    Returns =>
        /\ result.status = "error" => ("data" \notin DOMAIN result \/ result.data = NoData)
        /\ IF "response" \in DOMAIN Env
           THEN /\ Env.status = "error" => Env.data = NoData
                /\ Env.response # ""
           ELSE result.message # ""

\* an error value without data has been returned
C7_Witness ==
    /\ Returns
    /\ result.status = "error"
    /\ "data" \notin DOMAIN result
    /\ result.message # ""

\* C8: when a step of the dispatch raises, the request still returns, with
\* status=error and the description of the exception.
C8_RaiseIsErrorEnvelope ==
    (Returns /\ FullyInitialized /\ ctx.raised # "")
        => (Env.status = "error"
            /\ (Contains(Env.response, ctx.raised) \/ Contains(Env.message, ctx.raised)))

\* the target of the request in flight cannot be resolved
Unresolved ==
    \/ IsAgentBranch /\ ctx.agent_type \notin DOMAIN agent_map
    \/ IsAgentBranch /\ agent_manager /\ ctx.agent_type \notin agents
    \/ IsServiceBranch /\ ctx.service_type \notin DOMAIN service_map

UnresolvedName == IF IsAgentBranch THEN ctx.agent_type ELSE ctx.service_type

\* C9: a target that cannot be resolved gives status=error and a message that
\* names the target.
C9_UnresolvedIsError ==
    (Returns /\ mgr_initialized /\ Unresolved)
        => (Env.status = "error"
            /\ (Contains(Env.message, UnresolvedName) \/ Contains(Env.response, UnresolvedName)))

\* the search of the pipeline succeeded with no result
EmptySearch ==
    /\ IsPipeline
    /\ UnderlyingStatus = "success"
    /\ ctx.response.data.results = <<>>

\* C10: a pipeline search that succeeds with zero results is answered with
\* the no-results message, which contains "keine" and "gefunden" and is not
\* the message of any failed search, and the generative call is not made.
C10_NoResultsMessage ==
    (Returns /\ EmptySearch)
        => /\ Contains(Lower(Env.response), "keine")
           /\ Contains(Lower(Env.response), "gefunden")
           /\ \A out \in SearchOutcomes :
                LET failed == CallSearchService(ctx.request_data, out) IN
                failed.status # "success" => Env.response # SearchFailedText(failed)
           /\ NoCallOf("llm")

\* the pipeline ended on an empty search
C10_Witness ==
    /\ Returns
    /\ EmptySearch
    /\ Len(calls) = 1
    /\ Env.data = NoData

\* C11: when a stage of the pipeline raises (the generative call after a
\* successful search, for example) the envelope has status=error, its text
\* names the stage context, and its data is null: the results already
\* retrieved are not returned.
C11_PipelineRaiseIsError ==
    (Returns /\ FullyInitialized /\ IsPipeline /\ ctx.raised # "")
        => /\ Env.status = "error"
           /\ Contains(Env.response, "Suche und Analyse")
           /\ Env.data = NoData

\* C12: the scenario request, classified without explicit target, is the
\* multi-step (composite) target.
C12_ScenarioIsComposite ==
    (cls_out # UnsetTarget /\ cls_in = ScenarioQuery)
        => cls_out = <<"multi_step", "search_and_analyze">>

\* the lower-cased text after the leading "suche nach", and its part before
\* the first "und fass", trimmed
AfterPrefix(query) == SubSeq(Lower(query), Len("suche nach") + 1, Len(query))
Between(query) == Strip(SplitHead(AfterPrefix(query), "und fass"))

SucheNachUndFass(query) ==
    /\ StartsWith(Lower(query), "suche nach")
    /\ Contains(AfterPrefix(query), "und fass")

\* C13 as stated: on a request that starts with "suche nach" and contains
\* "und fass", term extraction yields the lower-cased, trimmed text between
\* the two; for the scenario request that is "neuigkeiten zu quantencomputern".
C13_BetweenText ==
    (ext_out # <<>> /\ SucheNachUndFass(ext_in))
        => /\ ext_out[1] = Between(ext_in)
           /\ ext_in = ScenarioQuery => ext_out[1] = "neuigkeiten zu quantencomputern"

\* C13 as amended: on a request that starts with "suche nach", contains
\* "und fass" and holds no filler phrase after that prefix, term extraction
\* yields the lower-cased, trimmed text between the two, or the default term
\* when that text is empty; for the scenario request that is
\* "neuigkeiten zu quantencomputern".
C13_BetweenTextNoFiller ==
    (ext_out # <<>> /\ SucheNachUndFass(ext_in)
        /\ ~AnyIn(FillerPhrases, AfterPrefix(ext_in)))
        => /\ ext_out[1] = (IF Between(ext_in) = "" THEN DefaultSearchTerm
                            ELSE Between(ext_in))
           /\ ext_in = ScenarioQuery => ext_out[1] = "neuigkeiten zu quantencomputern"

\* the scenario request has been reduced to its search term
C13_Witness ==
    /\ ext_in = ScenarioQuery
    /\ SucheNachUndFass(ext_in)
    /\ ~AnyIn(FillerPhrases, AfterPrefix(ext_in))
    /\ ext_out = <<"neuigkeiten zu quantencomputern">>

\* the single-target request in flight has made its call
SingleTargetCall == (IsAgentBranch \/ IsServiceBranch) /\ Len(calls) = 1

\* C14: the text a handler receives, and echoes as data.original_text, is the
\* query exactly as passed to the router; nothing of the term extraction
\* (filler stripping, truncation, lower-casing) is applied to it.
C14_HandlerGetsRawQuery ==
    (Returns /\ FullyInitialized /\ IsAgentBranch /\ Len(calls) = 1
        /\ Strip(req.query) # "")
        => /\ DictGet(calls[1].request, "text", "") = req.query
           /\ UnderlyingStatus = "success"
                => DictGet(ctx.response.data, "original_text", "") = req.query

\* the parameter each target reads, and its default (None: it reads none; the
\* page extraction falls back to the query text)
DeclaredParameter ==
    [lektor |-> None, sentiment |-> "language", optimizer |-> "tonality",
     query_ref |-> "context", search |-> "max_results", web |-> "url", time |-> None]

DeclaredDefault(target, query) ==
    IF target = "sentiment" THEN "de"
    ELSE IF target = "optimizer" THEN "friendly"
    ELSE IF target = "query_ref" THEN ""
    ELSE IF target = "search" THEN 5
    ELSE query

TextFields == {"text", "query"}

\* C15: the request built for a target holds the query text and the one
\* parameter declared for the target, with the declared default when the
\* caller left it out, and no other key of the caller's parameters.
C15_RequestShape ==
    SingleTargetCall =>
        LET target == IF IsAgentBranch THEN ctx.agent_type ELSE ctx.service_type
            request == calls[1].request
            declared == DeclaredParameter[target]
            fields == DOMAIN request \ {declared}
        IN  /\ fields \subseteq TextFields
            /\ Cardinality(fields) = (IF target = "web" THEN 0 ELSE 1)
            /\ \A k \in fields : request[k] = req.query
            /\ declared # None =>
                  /\ declared \in DOMAIN request
                  /\ request[declared] = DictGet(req.parameters, declared,
                                                 DeclaredDefault(target, req.query))

\* a sentiment request built from parameters that hold more than the language
C15_Witness ==
    /\ Returns
    /\ SingleTargetCall
    /\ ctx.agent_type = "sentiment"
    /\ "foo" \in DOMAIN req.parameters
    /\ calls[1].request = [text |-> req.query, language |-> "en"]

\* a step of a request: it starts, continues or hands back its result
RequestStep == pc # "idle" \/ pc' # "idle"

\* C16: registration runs at most once, and no step of a request adds,
\* removes or replaces a registry entry, so that a request finds the registry
\* as it was before any earlier request, failed or not.
C16_RegistryFrozen ==
    [][ /\ register_runs' <= 1
        /\ RequestStep => /\ agents' = agents
                          /\ register_runs' = register_runs
                          /\ mgr_initialized' = mgr_initialized ]_vars

\* the keyword groups in the order of the cascade, each with its target
GroupOrder ==
    << [words |-> LektorWords, target |-> <<"lektor", None>>],
       [words |-> SentimentWords, target |-> <<"sentiment", None>>],
       [words |-> OptimizerWords, target |-> <<"optimizer", None>>],
       [words |-> QueryRefWords, target |-> <<"query_ref", None>>],
       [words |-> SearchWords, target |-> <<None, "search">>],
       [words |-> WebWords, target |-> <<None, "web">>],
       [words |-> TimeWords, target |-> <<None, "time">>] >>

GroupHits(query) ==
    LET lowered == Lower(query) IN
    { g \in 1..Len(GroupOrder) :
        \E k \in 1..Len(GroupOrder[g].words) : Contains(lowered, GroupOrder[g].words[k]) }

\* C17: a query that is not composite is classified to the first group, in
\* the order grammar, sentiment, optimizer, query refinement, search, page
\* extraction, time, with a keyword in the lower-cased query, and to the
\* optimizer handler when no group has one; the result is never unresolved.
C17_FirstGroupWins ==
    (cls_out # UnsetTarget /\ ~CompositeCondition(cls_in))
        => LET hits == GroupHits(cls_in) IN
           /\ hits # {} =>
                 cls_out = GroupOrder[CHOOSE g \in hits : \A h \in hits : g <= h].target
           /\ hits = {} => cls_out = <<"optimizer", None>>
           /\ Truthy(cls_out[1]) \/ Truthy(cls_out[2])

\* a query with keywords of the sentiment and the optimizer group went to sentiment
C17_Witness ==
    /\ ~CompositeCondition(cls_in)
    /\ {2, 3} \subseteq GroupHits(cls_in)
    /\ cls_out = <<"sentiment", None>>

CallsOf(op) == { i \in 1..Len(calls) : calls[i].op = op }

\* C18: in the pipeline the generative call is made only after the search
\* has answered status=success with at least one result; the search call
\* always precedes it, and after a failed or empty search it is never made.
C18_AnalysisAfterSearch ==
    (InRoute /\ IsPipeline) =>
        /\ \A i \in CallsOf("llm") :
              /\ \E j \in 1..(i - 1) :
                    calls[j].op = "service" /\ calls[j].target = "SearchService"
              /\ UnderlyingStatus = "success"
              /\ Len(ctx.response.data.results) >= 1
        /\ (Returns /\ UnderlyingStatus = "error") => CallsOf("llm") = {}
        /\ (Returns /\ EmptySearch) => CallsOf("llm") = {}

\* the generative call is under way after a search with results
C18_Witness ==
    /\ pc = "llm_call"
    /\ IsPipeline
    /\ calls[1].target = "SearchService"
    /\ calls[2].op = "llm"
    /\ Len(ctx.results) >= 1

\* C19: one request to the router invokes no external capability twice and
\* retries nothing: a single-target dispatch makes at most one handler or
\* service call, the pipeline exactly one search call and at most one
\* generative call.
C19_NoRepeatNoRetry ==
    InRoute =>
        /\ CallsOf("handler") \cup CallsOf("service") \cup CallsOf("llm") = 1..Len(calls)
        /\ ~IsPipeline => Len(calls) <= 1 /\ CallsOf("llm") = {}
        /\ IsPipeline =>
              /\ CallsOf("handler") = {}
              /\ Cardinality(CallsOf("service")) <= 1
              /\ agent_manager => Cardinality(CallsOf("service")) = 1
              /\ \A i \in CallsOf("service") : calls[i].target = "SearchService"
              /\ Cardinality(CallsOf("llm")) <= 1

\* the pipeline returned after its generative call raised, without a second call
C19_Witness ==
    /\ Returns
    /\ IsPipeline
    /\ ctx.raised = ExcText
    /\ Len(calls) = 2
    /\ Cardinality(CallsOf("llm")) = 1

\* the field of request.data each handler checks to be non-empty
RequiredField ==
    [lektor |-> "text", sentiment |-> "text", optimizer |-> "text", query_ref |-> "text"]

\* C20: the request built for a handler carries the query under the field
\* that handler requires, for each of the four handlers, so a non-empty query
\* sent to a registered handler never fails the handler's empty-input check.
C20_RequiredFieldCarriesQuery ==
    (Returns /\ IsAgentBranch /\ Len(calls) = 1 /\ Strip(req.query) # "")
        => LET field == RequiredField[ctx.agent_type] IN
           /\ field \in DOMAIN calls[1].request
           /\ calls[1].request[field] = req.query
           /\ ~StartsWith(DictGet(ctx.response, "message", ""), "No text provided")

\* the field of a handler's result data that holds its output text
OutputField ==
    [lektor |-> "corrected_text", sentiment |-> "original_text",
     optimizer |-> "optimized_text", query_ref |-> "query"]

\* a handler returned after its own generative call raised
GenerativeCallFailed ==
    /\ Returns
    /\ IsAgentBranch
    /\ Len(calls) = 1
    /\ DictGet(ctx.run, "kind", None) = "raise"

\* C21: when a handler's generative call fails, the handler's result carries
\* the original input text as its output together with status=error, for each
\* of the handlers.
C21_DegradedResult ==
    (FullyInitialized /\ GenerativeCallFailed)
        => LET data == DictGet(ctx.response, "data", EmptyDict) IN
           /\ DictGet(data, OutputField[ctx.agent_type], None)
                = DictGet(calls[1].request, "text", "")
           /\ "error" \in {DictGet(ctx.response, "status", None),
                           DictGet(data, "status", None)}

\* the output of the generative call is not a JSON object
Unparseable(output) == ~JsonLoads(output).ok \/ ~JsonLoads(output).object

\* the label of the fixed-lexicon count
HeuristicLabel(text) ==
    LET p == CountIn(positive_words, Lower(text))
        n == CountIn(negative_words, Lower(text))
    IN  IF p > n THEN "positive" ELSE IF p < n THEN "negative" ELSE "neutral"

\* C22: whenever the generative output cannot be parsed into the
\* label/confidence/score schema, the sentiment handler returns a success
\* result whose label is the one of the fixed-lexicon count of the input, and
\* the parse failure does not reach the caller.
C22_ParseFailureFallsBack ==
    (/\ FullyInitialized
     /\ Returns
     /\ IsAgentBranch
     /\ ctx.agent_type = "sentiment"
     /\ Len(calls) = 1
     /\ DictGet(ctx.run, "kind", None) = "object"
     /\ Unparseable(ContentOrStr(ctx.run)))
        => LET data == DictGet(ctx.response, "data", EmptyDict) IN
           /\ ctx.response.status = "success"
           /\ DictGet(data, "status", None) = "success"
           /\ data.sentiment.label = HeuristicLabel(calls[1].request.text)

\* the index of the first occurrence of p in s, for an s that contains p
FirstIndex(s, p) ==
    CHOOSE i \in 1..Len(s) :
        /\ SubSeq(s, i, i + Len(p) - 1) = p
        /\ \A j \in 1..(i - 1) : SubSeq(s, j, j + Len(p) - 1) # p

\* the part of s before the earliest occurrence of any summary phrase, trimmed
BeforeEarliestSummary(s) ==
    LET found == { k \in 1..Len(SummaryPhrases) : Contains(s, SummaryPhrases[k]) }
        first == CHOOSE k \in found :
                    \A j \in found : FirstIndex(s, SummaryPhrases[k])
                                        <= FirstIndex(s, SummaryPhrases[j])
    IN  Strip(SubSeq(s, 1, FirstIndex(s, SummaryPhrases[first]) - 1))

OrDefault(term) == IF term = "" THEN DefaultSearchTerm ELSE term

\* C23: when summary phrases occur in the request (its filler phrases taken
\* out), the extracted term is the part before the earliest occurrence of any
\* of them, so the term contains no summary phrase.
C23_CutAtEarliestSummary ==
    (ext_out # <<>> /\ AnyIn(SummaryPhrases, RemoveFillers(Lower(ext_in), 1)))
        => /\ ext_out[1] = OrDefault(BeforeEarliestSummary(RemoveFillers(Lower(ext_in), 1)))
           /\ ~AnyIn(SummaryPhrases, ext_out[1])

\* the filler phrases taken off the head of the text only, from phrase k on
RECURSIVE StripLeadingFillers(_, _)
StripLeadingFillers(s, k) ==
    IF k > Len(FillerPhrases) THEN s
    ELSE IF StartsWith(s, FillerPhrases[k])
        THEN StripLeadingFillers(Strip(SubSeq(s, Len(FillerPhrases[k]) + 1, Len(s))), k + 1)
    ELSE StripLeadingFillers(s, k + 1)

\* C24: extraction removes a filler phrase only where it leads the request
\* text; an occurrence later in the text, also inside a longer word, stays.
C24_OnlyLeadingFillers ==
    ext_out # <<>>
        => ext_out[1]
             = OrDefault(Strip(CutAtSummary(StripLeadingFillers(Lower(ext_in), 1), 1)))

\* the pipeline has called the search service
PipelineSearched == InRoute /\ IsPipeline /\ Len(calls) >= 1

\* C25: the search term the pipeline passes to the search service is never
\* empty; when the removal of filler and summary phrases leaves nothing, it
\* is the default term 'aktuelle nachrichten'.
C25_SearchTermNeverEmpty ==
    PipelineSearched
        => /\ calls[1].op = "service"
           /\ calls[1].target = "SearchService"
           /\ Strip(calls[1].request.query) # ""
           /\ Strip(CutAtSummary(RemoveFillers(Lower(req.query), 1), 1)) = ""
                => calls[1].request.query = "aktuelle nachrichten"

\* a request made of filler and summary phrases only was searched under the
\* default term
C25_Witness ==
    /\ PipelineSearched
    /\ req.query = "Suche nach Bericht"
    /\ calls[1].request.query = "aktuelle nachrichten"

\* the first non-empty of the structured payload, the content field and the
\* raw stringification of a returned object, trimmed
FirstNonEmpty(run) ==
    IF "data" \in run.attrs /\ run.data # "" THEN Strip(run.data)
    ELSE IF "content" \in run.attrs /\ run.content # "" THEN Strip(run.content)
    ELSE Strip(run.str)

\* the generative call of the pipeline returned an object
AnalysisReturned ==
    /\ Returns
    /\ IsPipeline
    /\ Len(calls) = 2
    /\ DictGet(ctx.run, "kind", None) = "object"

\* C26: the synthesized text of the pipeline is the first non-empty of the
\* structured payload, the content field and the raw stringification of what
\* the generative call returned; an absent or empty payload with an empty
\* content field falls through to the raw stringification.
C26_FirstNonEmptyWins ==
    (FullyInitialized /\ AnalysisReturned)
        => Env.data.analysis = FirstNonEmpty(ctx.run)

\* the entries the manager named in down had when its shutdown ran
ShutdownEntries(manager) ==
    IF manager = "AgentManager" THEN Entries(AgentOrder, agents)
    ELSE Entries(ServiceOrder, mcp.services)

Mentions(log, id) == \E i \in 1..Len(log) : Contains(log[i], " " \o id \o ": ")

\* C27: a shutdown invokes shutdown() on every registered entry, also when
\* the shutdown() of an earlier entry raises; what is raised is logged, and
\* the shutdown itself does not raise.
C27_ShutdownReachesAll ==
    [][down' # down
         => /\ down'.invoked = ShutdownEntries(down'.manager)
            /\ \A id \in down'.raising : Mentions(down'.logged, id)
            /\ ~down'.raised]_vars

\* the shutdown() of the first handler raised and the later ones were invoked
C27_Witness ==
    /\ down.manager = "AgentManager"
    /\ Len(down.invoked) >= 3
    /\ down.invoked[1] \in down.raising
    /\ Mentions(down.logged, down.invoked[1])

\* the outcomes the first external call of a request with that target can have
SoloFirstOutcomes(target) ==
    LET branch == RouteBranch(target[1], target[2])
    IN  IF branch = "agent" THEN RunOutcomes
        ELSE IF branch = "service" /\ target[2] \in DOMAIN service_map
            THEN ServiceOutcomes(service_map[target[2]])
        ELSE SearchOutcomes

\* the outcomes the generative call of the pipeline can have; other requests
\* make no such call
SoloSecondOutcomes(target) ==
    IF RouteBranch(target[1], target[2]) = "multi_step" THEN RunOutcomes ELSE {RunRaise}

\* the envelope _route_request builds for request r when it runs alone on the
\* present registry, target being the target resolved for r and term the
\* search term extracted from it, its first external call doing o1 and the
\* generative call of the pipeline o2
SoloEnvelope(r, target, term, o1, o2) ==
    LET a == target[1]
        s == target[2]
        branch == RouteBranch(a, s)
    IN  IF branch = "multi_step" THEN
            LET used == "InterfaceAgent (Multi-Step)"
                found == CallService("SearchService",
                            [query |-> term,
                             max_results |-> DictGet(r.parameters, "max_results", 5)], o1)
                results == DictGet(DictGet(found, "data", EmptyDict), "results", <<>>)
            IN  IF ~agent_manager
                    THEN InterfaceResponse(PipelineErrorText(NoManagerText("call_service")),
                                           used, r.query, NoData)
                ELSE IF found.status # "success"
                    THEN InterfaceResponse(SearchFailedText(found), used, r.query, NoData)
                ELSE IF results = <<>>
                    THEN InterfaceResponse(NoResultsText, used, r.query, NoData)
                ELSE IF o2.kind = "raise"
                    THEN InterfaceResponse(PipelineErrorText(ExcText), used, r.query, NoData)
                ELSE InterfaceResponse(FinalResponse(term, results, ExtractRunText(o2)),
                        used, r.query,
                        [search_results |-> results, analysis |-> ExtractRunText(o2),
                         search_query |-> term, multi_step |-> TRUE])
        ELSE IF branch = "agent" THEN
            LET used == a \o "Agent" IN
            IF a \notin DOMAIN agent_map
                THEN InterfaceResponse("Unbekannter Agent-Typ: " \o a, used, r.query, NoData)
            ELSE IF ~agent_manager
                THEN InterfaceResponse("Fehler beim Aufruf von " \o a \o ": "
                        \o NoManagerText("call_agent"), used, r.query, NoData)
            ELSE
                LET lookup == CallAgentLookup(agent_map[a], agents)
                    reply == IF lookup.status # None THEN lookup
                             ELSE AgentHandleRequest(agent_id_map[agent_map[a]],
                                     AgentRequestData(a, r.query, r.parameters), o1)
                    formatted == FormatAgentResponse(a, r.query, reply)
                IN  InterfaceResponse(formatted[1], used, r.query, formatted[2])
        ELSE IF branch = "service" THEN
            LET used == s \o "Service" IN
            IF s \notin DOMAIN service_map
                THEN InterfaceResponse("Unbekannter Service-Typ: " \o s, used, r.query, NoData)
            ELSE IF ~agent_manager
                THEN InterfaceResponse("Fehler beim Aufruf von " \o s \o ": "
                        \o NoManagerText("call_service"), used, r.query, NoData)
            ELSE
                LET formatted == FormatServiceResponse(s,
                        CallService(service_map[s],
                            ServiceRequestData(s, r.query, r.parameters), o1))
                IN  InterfaceResponse(formatted[1], used, r.query, formatted[2])
        ELSE InterfaceResponse(
                "Ich konnte nicht bestimmen, welcher Agent oder Service für diese Anfrage geeignet ist.",
                "InterfaceAgent", r.query, NoData)

\* the invocation of frame f has returned what its request returns alone
AsAlone(f) ==
    f.pc = "done"
        => IF f.req.entry = "handle_request" /\ Strip(f.req.query) = ""
               THEN f.result = CreateErrorResponse("InterfaceAgent", "No query provided", None)
           ELSE LET r == f.req
                    target == ResolveTarget(r.query, r.agent_type, r.service_type)
                    term == ExtractSearchTerms(r.query)
                IN  \E o1 \in SoloFirstOutcomes(target), o2 \in SoloSecondOutcomes(target) :
                       f.result = Returned(r.entry, SoloEnvelope(r, target, term, o1, o2))

ThisFrame == [pc |-> pc, req |-> req, ctx |-> ctx, calls |-> calls, result |-> result]

\* C28: however two invocations of the router interleave at their external
\* calls, each returns the envelope (original query, target used, text, data)
\* its own request produces when run alone.
C28_InterleavingIsolated == AsAlone(ThisFrame) /\ AsAlone(other)

\* both invocations have returned, the one that started first returning last
C28_Witness ==
    /\ pc = "done"
    /\ other.pc = "done"
    /\ req.query = "Korrigiere: Das ist ein Fehler"
    /\ other.req.query = "Suche nach KI und fasse zusammen: Bericht"
    /\ Len(other.calls) = 2
    /\ req.entry = "coordinate_request"
    /\ other.req.entry = "coordinate_request"
    /\ result.response # other.result.response

\* the query is not composite and holds no handler keyword, so classification
\* goes on to the service keywords
ReachesServiceStage(query) ==
    LET l == Lower(query) IN
    /\ ~(has_search(l) /\ has_analysis(l))
    /\ ~AnyIn(LektorWords, l)
    /\ ~AnyIn(SentimentWords, l)
    /\ ~AnyIn(OptimizerWords, l)
    /\ ~AnyIn(QueryRefWords, l)

\* C29: a query that reaches the service stage and contains 'website' or
\* 'webseite' is classified to search, never to page extraction; page
\* extraction is selected only through 'url', 'extrahier' or 'inhalt' in a
\* query with no search keyword.
C29_WebsiteGoesToSearch ==
    cls_out # UnsetTarget
        => LET l == Lower(cls_in) IN
           /\ (ReachesServiceStage(cls_in) /\ (Contains(l, "website") \/ Contains(l, "webseite")))
                => cls_out = <<None, "search">>
           /\ cls_out = <<None, "web">>
                => /\ Contains(l, "url") \/ Contains(l, "extrahier") \/ Contains(l, "inhalt")
                   /\ ~AnyIn(<<"suche", "finde", "google", "web", "internet">>, l)

\* a request for the content of a web page has been classified to search
C29_Witness ==
    /\ cls_in = "Inhalt Webseite"
    /\ ReachesServiceStage(cls_in)
    /\ cls_out = <<None, "search">>

\* the handler a direct manager request names, None when it names none
ManagerTarget ==
    IF req.entry = "call_agent" THEN DictGet(agent_id_map, req.target, None)
    ELSE IF req.entry = "process_request" THEN req.target
    ELSE None

ManagerReturned == pc = "mgr_done"

\* C30: when the registration of a handler fails, the other handlers are
\* still registered and the manager is marked initialised; a later call_agent
\* or process_request for the missing handler returns an error result without
\* calling anything, through the router as well; requests for registered
\* handlers reach their handler.
C30_RegistrationFailureContained ==
    /\ register_runs >= 1 => (mgr_initialized /\ agents = AgentIds \ reg_failed)
    /\ (ManagerReturned /\ register_runs >= 1 /\ ManagerTarget \in reg_failed)
          => /\ result.status = "error"
             /\ result.message \in {"Agent " \o ManagerTarget \o " not available",
                                    "Agent type '" \o ManagerTarget \o "' not found"}
             /\ calls = <<>>
    /\ (Returns /\ IsAgentBranch /\ register_runs >= 1
           /\ ctx.agent_type \in DOMAIN agent_map /\ ctx.agent_type \in reg_failed)
          => /\ ctx.raised = ""
             /\ ctx.response = ManagerError("Agent " \o ctx.agent_type \o " not available")
             /\ calls = <<>>
    /\ (ManagerReturned /\ ManagerTarget \in agents)
          => /\ Len(calls) = 1
             /\ calls[1].op = "handler"
             /\ calls[1].target = ManagerTarget
             /\ result.agent = agent_map[ManagerTarget]

\* call_agent for the handler whose registration failed returned an error,
\* the other handlers being registered
C30_Witness ==
    /\ ManagerReturned
    /\ mgr_initialized
    /\ reg_failed = {"lektor"}
    /\ agents = AgentIds \ {"lektor"}
    /\ req.entry = "call_agent"
    /\ req.target = "LektorAgent"
    /\ result = ManagerError("Agent lektor not available")

====
